---- MODULE Spec2Model ----
(***************************************************************************)
(* Model of the essay word-count service (package src/essays): the bulk    *)
(* upload job UploadEssaysFileUseCase, its per-URL fetch tasks, the two     *)
(* JSON documents it persists, and the query GetMaxCountsBasedOnID.        *)
(*                                                                         *)
(* One action is one run of a coroutine between two suspension points of   *)
(* the single asyncio event loop.  get_word_banks is declared async but    *)
(* blocks on requests.get, so it never suspends; the first suspension of   *)
(* execute is the gather of the first batch.                               *)
(***************************************************************************)
EXTENDS Integers, Sequences, FiniteSets, TLC

VARIABLES
    fs,     \* the JSON documents on disk: path -> dict
    uuid,   \* number of uuid4() values drawn so far; the next one is uuid + 1
    job,    \* per job slot: the UploadEssaysFileUseCase instance and its tasks
    query   \* what the query handled in this step saw and returned, else NoQuery

vars == <<fs, uuid, job, query>>

-----------------------------------------------------------------------------
(* Bounds of the model *)

(* one job slot per upload route *)
BulkJobs == {"bulk"}

SmallJobs == {"small"}

Jobs == BulkJobs \cup SmallJobs

URLS == {"", "a", "b", "c"}

(* the URL sets of the files uploaded on each route *)
BulkUploads == { {"", "a"}, {"a", "b"} }

SmallUploads == { {""}, {"", "a"} }

(* a file of more URLs than one batch takes, uploaded in SpecBatches *)
LargeUploads == { {"a", "b", "c"} }

(* the file uploaded in SpecFair *)
FairUploads == { {"", "a", "b"} }

(* EssayConfiguration, scaled down: the program runs with a batch size of  *)
(* 1000, 10 concurrent requests and 5 attempts per URL                     *)
DEFAULT_PROCESSING_BATCH_SIZE == 2

DEFAULT_MAX_CONCURRENT_REQUESTS == 1

MAX_RETRY_FOR_BACKOFF == 2

(* the top_words argument of a query by id and of a small upload *)
QueryTopWords == {0}

SmallTopWords == {1}

(* SpecAgg: the cache files the queries are applied to hold the URLs of    *)
(* AggUrls in any order, each with a Counter of at most two of AggWords in *)
(* any order and counts of 1..MaxCount; the record queried has one of      *)
(* AggScopes as http_urls, and top_words ranges over AggTopWords.          *)
AggUrls == {"a", "b"}

AggWords == {"cat", "dog", "emu"}

MaxCount == 2

AggScopes == { {"a"}, {"a", "b"} }

AggTopWords == {-1, 0, 1, 2, 3}

(* SpecFilter: the lines of the word bank and the tokens of the visible    *)
(* text of a page, which has at most MaxTextLen of them                    *)
FilterWordLists == { <<"cat">>, <<"Dog", "ab">>, <<"c4t">>, <<"cat", "Dog", "ab", "c4t">> }

Tokens == {"cat", "Dog", "dog", "ab"}

MaxTextLen == 3

-----------------------------------------------------------------------------
(* Constants of the program *)

DEFAULT_TOP_WORDS_COUNT == 10

PROCESSED_LINKS_JSON_FILE_PATH == "processed_links.json"

PROCESSED_FILES_JSON_FILE_PATH == "processed_files.json"

PROCESSING == "Processing"

PROCESSED == "Processed"

FAILED == "Failed"

FILE_DOES_NOT_EXIST == "File id does not exist, Please verify and try again."

FILE_STILL_GETTING_PROCESSED == "File is Still Getting Processed, Please check after sometime."

None == 0

UnknownId == 99

-----------------------------------------------------------------------------
(* Python dicts keep insertion order, and json.dump / json.load keep it    *)
(* too: a dict is a sequence of items [k, v] with pairwise distinct keys.  *)

Keys(d) == {d[i].k : i \in DOMAIN d}

Has(d, key) == key \in Keys(d)

Get(d, key) == d[CHOOSE i \in DOMAIN d : d[i].k = key].v

Put(d, key, val) ==
    IF Has(d, key)
    THEN [i \in DOMAIN d |-> IF d[i].k = key THEN [k |-> key, v |-> val] ELSE d[i]]
    ELSE Append(d, [k |-> key, v |-> val])

RECURSIVE Update(_, _)
Update(old_data, data) ==
    IF data = <<>> THEN old_data
    ELSE Update(Put(old_data, Head(data).k, Head(data).v), Tail(data))

Range(s) == {s[i] : i \in DOMAIN s}

Orderings(S) ==
    {s \in [1..Cardinality(S) -> S] : \A i, j \in 1..Cardinality(S) : i # j => s[i] # s[j]}

Slice(s, lo, hi) == [i \in 1..((IF hi < Len(s) THEN hi ELSE Len(s)) - lo) |-> s[lo + i]]

-----------------------------------------------------------------------------
(* src/common/utility.py *)

read_json_file(files, file_directory) ==
    IF file_directory \in DOMAIN files THEN files[file_directory] ELSE <<>>

(* mutant: the document is written without reading the old one *)
write_to_json_Replace(files, data, file_path) ==
    [p \in DOMAIN files \cup {file_path} |->
        IF p = file_path THEN data ELSE files[p]]

write_to_json(files, data, file_path) ==
    LET old_data == IF file_path \in DOMAIN files THEN files[file_path] ELSE <<>>
    IN  [p \in DOMAIN files \cup {file_path} |->
            IF p = file_path THEN Update(old_data, data) ELSE files[p]]

registry == read_json_file(fs, PROCESSED_FILES_JSON_FILE_PATH)

cache == read_json_file(fs, PROCESSED_LINKS_JSON_FILE_PATH)

-----------------------------------------------------------------------------
(* Text: tokens, the str methods used on them, the word bank, Counter *)

Lower(w) == CASE w = "Cat" -> "cat" [] w = "Dog" -> "dog" [] OTHER -> w

IsAlpha(w) == w \notin {"c4t", ""}

WordLines == <<"cat", "Dog", "ab", "c4t">>

Texts == { <<"cat", "Dog", "dog", "cat", "ab">> }

FilterTexts == UNION {[1..n -> Tokens] : n \in 0..MaxTextLen}

RECURSIVE Counter(_)
Counter(words) ==
    IF words = <<>> THEN <<>>
    ELSE LET c == Counter(SubSeq(words, 1, Len(words) - 1))
             w == words[Len(words)]
         IN  Put(c, w, IF Has(c, w) THEN Get(c, w) + 1 ELSE 1)

MapSeq(s, F(_)) == [i \in DOMAIN s |-> F(s[i])]

(* get_word_banks, status 200: the set comprehension over the lines *)
BankOf(word_list) ==
    {Lower(word_list[i]) : i \in {n \in DOMAIN word_list :
                                    IsAlpha(word_list[n]) /\ Len(word_list[n]) > 2}}

(* fetch_and_filter_content, lines 164-166: filter, then lower *)
FilterWords(words, word_bank) ==
    LET Keep(w) == w \in word_bank
    IN  MapSeq(SelectSeq(words, Keep), Lower)

-----------------------------------------------------------------------------
(* GetMaxCountsBasedOnID: the query by job id *)

RECURSIVE AddCounts(_, _)
AddCounts(total_counts, word_counts) ==
    IF word_counts = <<>> THEN total_counts
    ELSE LET word == Head(word_counts).k
             count == Head(word_counts).v
         IN  AddCounts(Put(total_counts, word,
                           (IF Has(total_counts, word) THEN Get(total_counts, word) ELSE 0) + count),
                       Tail(word_counts))

(* mutant: the entries of every URL are aggregated *)
InScope_Always(url, https_urls) == TRUE

(* the test of line 279 *)
InScope(url, https_urls) == url \in https_urls

RECURSIVE aggregate_word_counts(_, _)
aggregate_word_counts(data, https_urls) ==
    IF data = <<>> THEN <<>>
    ELSE LET n == Len(data)
             total_counts == aggregate_word_counts(SubSeq(data, 1, n - 1), https_urls)
         IN  IF ~InScope(data[n].k, https_urls) THEN total_counts
             ELSE AddCounts(total_counts, data[n].v)

(* sorted(items, key=count, reverse=True): stable, so equal counts keep    *)
(* the order they have in items.                                           *)
RECURSIVE SortedByCountDesc(_)
SortedByCountDesc(items) ==
    IF items = <<>> THEN <<>>
    ELSE LET top == CHOOSE i \in DOMAIN items :
                        /\ \A j \in DOMAIN items : items[j].v <= items[i].v
                        /\ \A j \in 1..(i - 1) : items[j].v < items[i].v
             rest == [j \in 1..(Len(items) - 1) |-> IF j < top THEN items[j] ELSE items[j + 1]]
         IN  <<items[top]>> \o SortedByCountDesc(rest)

(* mutant: the slice takes one item more *)
Prefix_OneMore(s, n) ==
    SubSeq(s, 1, IF n + 1 > Len(s) THEN Len(s) ELSE n + 1)

(* seq[:n] of Python, n possibly negative *)
Prefix(s, n) ==
    LET stop == IF n < 0 THEN (IF Len(s) + n < 0 THEN 0 ELSE Len(s) + n)
                ELSE (IF n > Len(s) THEN Len(s) ELSE n)
    IN  SubSeq(s, 1, stop)

(* mutant: the items are not sorted *)
get_top_words_Unsorted(words_list, https_urls, top_words) ==
    Prefix(aggregate_word_counts(words_list, https_urls), top_words)

get_top_words(words_list, https_urls, top_words) ==
    LET total_counts == aggregate_word_counts(words_list, https_urls)
        sorted_words == SortedByCountDesc(total_counts)
    IN  Prefix(sorted_words, top_words)

(* mutant: the two messages of the error branches exchanged *)
check_status_in_file_SwappedMessages(files, file_id) ==
    LET processed_files == read_json_file(files, PROCESSED_FILES_JSON_FILE_PATH)
    IN  IF Has(processed_files, file_id) /\ Get(processed_files, file_id).status = PROCESSED
        THEN <<FALSE, Get(processed_files, file_id)>>
        ELSE IF ~Has(processed_files, file_id)
        THEN <<TRUE, [message |-> FILE_STILL_GETTING_PROCESSED]>>
        ELSE <<TRUE, [message |-> FILE_DOES_NOT_EXIST]>>

(* mutant: the status of the record is not tested *)
check_status_in_file_AnyStatus(files, file_id) ==
    LET processed_files == read_json_file(files, PROCESSED_FILES_JSON_FILE_PATH)
    IN  IF Has(processed_files, file_id)
        THEN <<FALSE, Get(processed_files, file_id)>>
        ELSE <<TRUE, [message |-> FILE_DOES_NOT_EXIST]>>

(* check_status_in_file: <<error, content>> *)
check_status_in_file(files, file_id) ==
    LET processed_files == read_json_file(files, PROCESSED_FILES_JSON_FILE_PATH)
    IN  IF Has(processed_files, file_id) /\ Get(processed_files, file_id).status = PROCESSED
        THEN <<FALSE, Get(processed_files, file_id)>>
        ELSE IF ~Has(processed_files, file_id)
        THEN <<TRUE, [message |-> FILE_DOES_NOT_EXIST]>>
        ELSE <<TRUE, [message |-> FILE_STILL_GETTING_PROCESSED]>>

NoResponse ==
    [kind |-> "none", message |-> "", top_words |-> <<>>, failed_urls |-> <<>>, file_id |-> None]

NoQuery ==
    [file_id |-> None, top_words |-> 0, status |-> "", error |-> FALSE,
     aggregated |-> FALSE, response |-> NoResponse]

StatusOf(files, file_id) ==
    LET processed_files == read_json_file(files, PROCESSED_FILES_JSON_FILE_PATH)
    IN  IF Has(processed_files, file_id) THEN Get(processed_files, file_id).status ELSE "absent"

(* GetMaxCountsBasedOnID(file_id, top_words).execute() on the documents    *)
(* files.  The record keeps, next to the response, what the call saw and   *)
(* did: the status of the record, the error flag, whether it aggregated.   *)
GetMaxCountsBasedOnID(files, file_id, top_words_arg) ==
    LET top_words == IF top_words_arg = 0 THEN DEFAULT_TOP_WORDS_COUNT ELSE top_words_arg
        checked == check_status_in_file(files, file_id)
        error == checked[1]
        content == checked[2]
        seen == [file_id |-> file_id, top_words |-> top_words_arg,
                 status |-> StatusOf(files, file_id), error |-> error]
    IN  IF error
        THEN seen @@ [aggregated |-> FALSE,
                      response |-> [NoResponse EXCEPT !.kind = "message",
                                                      !.message = content.message]]
        ELSE IF PROCESSED_LINKS_JSON_FILE_PATH \notin DOMAIN files
        THEN seen @@ [aggregated |-> FALSE,
                      response |-> [NoResponse EXCEPT !.kind = "FileNotFoundError"]]
        ELSE seen @@ [aggregated |-> TRUE,
                      response |-> [NoResponse EXCEPT
                          !.kind = "result",
                          !.top_words = get_top_words(files[PROCESSED_LINKS_JSON_FILE_PATH],
                                                      content.http_urls, top_words),
                          !.failed_urls = content.failed_urls,
                          !.file_id = file_id]]

-----------------------------------------------------------------------------
(* UploadEssaysFileUseCase: one instance per job slot *)

NewJob ==
    [pc |-> "new", direct |-> FALSE, top_words |-> 0,
     file_id |-> None, http_urls |-> {}, already_processed_urls |-> {},
     word_banks |-> {}, filtered_urls |-> <<>>, batch_start |-> 0,
     failed_urls |-> <<>>, file_status |-> PROCESSING,
     processed_urls |-> <<>>, batch_failed_urls |-> <<>>, semaphore |-> 0,
     tasks |-> <<>>, result |-> [failed_urls |-> <<>>, file_id |-> None],
     (* history of the run, read by the properties only *)
     created_id |-> None,
     issued |-> [u \in URLS |-> 0], log |-> [u \in URLS |-> <<>>],
     requested |-> {}, fetched |-> {}, gave_up |-> {}, failed_ever |-> {}, committed |-> {},
     final_cache_keys |-> {},
     bank_error |-> FALSE, raised |-> FALSE, committed_counts |-> <<>>,
     text |-> [u \in URLS |-> <<>>]]

(* __init__, lines 21-29 *)
Construct(http_urls, file_id, direct, top_words) ==
    [NewJob EXCEPT !.http_urls = http_urls, !.file_id = file_id,
                   !.direct = direct, !.top_words = top_words,
                   !.already_processed_urls =
                       Keys(read_json_file(fs, PROCESSED_LINKS_JSON_FILE_PATH))]

(* the registry item written at lines 41-52 and 74-85 *)
FileData(jr, file_id, status, failed_urls) ==
    << [k |-> file_id,
        v |-> [file_name |-> "essays.txt", status |-> status,
               http_urls |-> jr.http_urls, failed_urls |-> failed_urls]] >>

(* mutant: the cache snapshot is not consulted *)
FilteredUrls_NoSnapshot(http_urls, already_processed_urls) ==
    {url \in http_urls : url # ""}

(* line 58 *)
FilteredUrls(http_urls, already_processed_urls) ==
    {url \in http_urls : url # "" /\ url \notin already_processed_urls}

(* lines 61-64 up to the gather: a fresh semaphore, one task per URL *)
StartBatch(jr, batch_start) ==
    LET batch_urls == Slice(jr.filtered_urls, batch_start,
                            batch_start + DEFAULT_PROCESSING_BATCH_SIZE)
    IN  [jr EXCEPT !.pc = "batch", !.batch_start = batch_start,
                   !.processed_urls = <<>>, !.batch_failed_urls = <<>>,
                   !.semaphore = DEFAULT_MAX_CONCURRENT_REQUESTS,
                   !.issued = [u \in URLS |-> 0], !.log = [u \in URLS |-> <<>>],
                   !.text = [u \in URLS |-> <<>>],
                   !.tasks = [u \in Range(batch_urls) |-> [st |-> "waiting", retries |-> 0]]]

(* mutant: the final record is written over the registry that was read   *)
(* before the other job added its record                                   *)
Finalize_OverwritesRegistry(j, jr, files, uu, file_status, failed_urls) ==
    LET fresh == jr.file_id = None
        file_id == IF fresh THEN uu + 1 ELSE jr.file_id
        files2 == [file_path \in DOMAIN files \cup {PROCESSED_FILES_JSON_FILE_PATH} |->
                      IF file_path = PROCESSED_FILES_JSON_FILE_PATH
                      THEN FileData(jr, file_id, file_status, failed_urls)
                      ELSE files[file_path]]
    IN  /\ fs' = files2
        /\ uuid' = IF fresh THEN uu + 1 ELSE uu
        /\ job' = [job EXCEPT ![j] =
                     [jr EXCEPT !.pc = "done", !.file_status = file_status,
                                !.failed_urls = failed_urls, !.tasks = <<>>,
                                !.processed_urls = <<>>, !.batch_failed_urls = <<>>,
                                !.semaphore = 0, !.word_banks = {},
                                !.issued = [u \in URLS |-> 0],
                                !.log = [u \in URLS |-> <<>>],
                                !.text = [u \in URLS |-> <<>>],
                                !.result = [failed_urls |-> failed_urls, file_id |-> file_id],
                                !.final_cache_keys =
                                    Keys(read_json_file(files2, PROCESSED_LINKS_JSON_FILE_PATH))]]
        /\ query' = IF jr.direct THEN GetMaxCountsBasedOnID(files2, file_id, jr.top_words)
                    ELSE NoQuery

(* lines 71-86, and for the direct route the query that follows the await  *)
(* in GetMaxWordCountsFromEssays.execute (lines 223-226)                   *)
Finalize(j, jr, files, uu, file_status, failed_urls) ==
    LET fresh == jr.file_id = None
        file_id == IF fresh THEN uu + 1 ELSE jr.file_id
        files2 == write_to_json(files, FileData(jr, file_id, file_status, failed_urls),
                                PROCESSED_FILES_JSON_FILE_PATH)
    IN  /\ fs' = files2
        /\ uuid' = IF fresh THEN uu + 1 ELSE uu
        /\ job' = [job EXCEPT ![j] =
                     [jr EXCEPT !.pc = "done", !.file_status = file_status,
                                !.failed_urls = failed_urls, !.tasks = <<>>,
                                !.processed_urls = <<>>, !.batch_failed_urls = <<>>,
                                !.semaphore = 0, !.word_banks = {},
                                !.issued = [u \in URLS |-> 0],
                                !.log = [u \in URLS |-> <<>>],
                                !.text = [u \in URLS |-> <<>>],
                                !.result = [failed_urls |-> failed_urls, file_id |-> file_id],
                                !.final_cache_keys =
                                    Keys(read_json_file(files2, PROCESSED_LINKS_JSON_FILE_PATH))]]
        /\ query' = IF jr.direct THEN GetMaxCountsBasedOnID(files2, file_id, jr.top_words)
                    ELSE NoQuery

(* execute, lines 32-64, from its start to its first suspension.           *)
(* create_tmp_folder (line 36) and requests.get (line 94) either return or *)
(* raise; an exception reaches the handler of line 68.  Line 36 passes the *)
(* folder to create_tmp_folder, and the helper of src/common/utility.py    *)
(* (line 15) takes no parameter, which is a TypeError: "raise" is what     *)
(* that helper does, "ok" what a helper taking the folder does.            *)
ExecuteStart(j, jr) ==
    \E tmp_folder \in {"ok", "raise"} :
       IF tmp_folder = "raise"
       THEN Finalize(j, jr, fs, uuid, FAILED, <<>>)
       ELSE LET fresh == jr.file_id = None
                file_id == IF fresh THEN uuid + 1 ELSE jr.file_id
                uu == IF fresh THEN uuid + 1 ELSE uuid
                files1 == write_to_json(fs, FileData(jr, file_id, PROCESSING, <<>>),
                                        PROCESSED_FILES_JSON_FILE_PATH)
                jr1 == [jr EXCEPT !.created_id = file_id]
            IN  \E bank \in {"200", "404", "raise"} :
                   IF bank = "raise"
                   THEN Finalize(j, [jr1 EXCEPT !.bank_error = TRUE],
                                 files1, uu, FAILED, <<>>)
                   ELSE \E filtered_urls \in
                             Orderings(FilteredUrls(jr.http_urls, jr.already_processed_urls)) :
                          LET jr2 == [jr1 EXCEPT
                                        !.word_banks = IF bank = "200" THEN BankOf(WordLines)
                                                       ELSE {},
                                        !.filtered_urls = filtered_urls]
                          IN  IF filtered_urls = <<>>
                              THEN Finalize(j, jr2, files1, uu, PROCESSED, <<>>)
                              ELSE /\ fs' = files1
                                   /\ uuid' = uu
                                   /\ job' = [job EXCEPT ![j] = StartBatch(jr2, 0)]
                                   /\ query' = NoQuery

(* routers/essays.py, upload_essays_file: the response carries file_id,    *)
(* execute runs later as a background task                                 *)
UploadFile(j, uploads) ==
    /\ job[j].pc = "new"
    /\ \E http_urls \in uploads :
          job' = [job EXCEPT ![j] = [Construct(http_urls, uuid + 1, FALSE, 0)
                                        EXCEPT !.pc = "queued"]]
    /\ uuid' = uuid + 1
    /\ query' = NoQuery
    /\ UNCHANGED fs

upload_essays_file(j) == UploadFile(j, BulkUploads)

(* the same handler, given a file of several batches *)
upload_large_file(j) == UploadFile(j, LargeUploads)

(* the background task starts *)
execute(j) ==
    /\ job[j].pc = "queued"
    /\ ExecuteStart(j, job[j])

(* routers/essays.py, get_max_occurrence_count: no file_id, execute is     *)
(* awaited in the handler                                                  *)
get_max_occurrence_count(j) ==
    /\ job[j].pc = "new"
    /\ \E http_urls \in SmallUploads, top_words \in SmallTopWords :
          ExecuteStart(j, Construct(http_urls, None, TRUE, top_words))

-----------------------------------------------------------------------------
(* fetch_and_filter_content: one task per URL of the running batch *)

Running(j, u) == job[j].pc = "batch" /\ u \in DOMAIN job[j].tasks

(* lines 179-181, leaving the semaphore block *)
GiveUp(jr, u) ==
    [jr EXCEPT !.batch_failed_urls = Append(@, u),
               !.gave_up = @ \cup {u},
               !.tasks[u].st = "done",
               !.semaphore = @ + 1]

(* mutant: one turn of the loop too many *)
MayRetry_Inclusive(retries) == retries <= MAX_RETRY_FOR_BACKOFF

(* the loop test of line 154 *)
MayRetry(retries) == retries < MAX_RETRY_FOR_BACKOFF

(* mutant: the first request does not wait for a free slot *)
fetch_acquire_Ungated(j, u) ==
    /\ Running(j, u)
    /\ job[j].tasks[u].st = "waiting"
    /\ job' = [job EXCEPT ![j].semaphore = @ - 1,
                          ![j].tasks[u].st = "requesting",
                          ![j].issued[u] = @ + 1,
                          ![j].requested = @ \cup {u}]
    /\ query' = NoQuery
    /\ UNCHANGED <<fs, uuid>>

(* lines 152-156: a free slot of the semaphore, then the first request *)
fetch_acquire(j, u) ==
    /\ Running(j, u)
    /\ job[j].tasks[u].st = "waiting"
    /\ job[j].semaphore > 0
    /\ job' = [job EXCEPT ![j].semaphore = @ - 1,
                          ![j].tasks[u].st = IF MayRetry(0) THEN "requesting" ELSE "exhausted",
                          ![j].issued[u] = IF MayRetry(0) THEN @ + 1 ELSE @,
                          ![j].requested = IF MayRetry(0) THEN @ \cup {u} ELSE @]
    /\ query' = NoQuery
    /\ UNCHANGED <<fs, uuid>>

(* mutant: the counts of a URL are written to the cache file at once *)
ParseResponse_CommitsAtOnce(j, u, texts) ==
    /\ Running(j, u)
    /\ job[j].tasks[u].st = "requesting"
    /\ \E status \in {"200", "404"}, text \in texts :
          LET words == FilterWords(text, job[j].word_banks)
          IN  /\ job' = [job EXCEPT ![j].processed_urls = Put(@, u, Counter(words)),
                                    ![j].tasks[u].st = "done",
                                    ![j].semaphore = @ + 1,
                                    ![j].fetched = @ \cup {u},
                                    ![j].log[u] = Append(@, status),
                                    ![j].text[u] = text]
              /\ fs' = write_to_json(fs, << [k |-> u, v |-> Counter(words)] >>,
                                     PROCESSED_LINKS_JSON_FILE_PATH)
    /\ query' = NoQuery
    /\ UNCHANGED uuid

(* lines 157-168: any status other than 429 is parsed and counted *)
ParseResponse(j, u, texts) ==
    /\ Running(j, u)
    /\ job[j].tasks[u].st = "requesting"
    /\ \E status \in {"200", "404"}, text \in texts :
          LET words == FilterWords(text, job[j].word_banks)
          IN  job' = [job EXCEPT ![j].processed_urls = Put(@, u, Counter(words)),
                                 ![j].tasks[u].st = "done",
                                 ![j].semaphore = @ + 1,
                                 ![j].fetched = @ \cup {u},
                                 ![j].log[u] = Append(@, status),
                                 ![j].text[u] = text]
    /\ query' = NoQuery
    /\ UNCHANGED <<fs, uuid>>

fetch_parsed(j, u) == ParseResponse(j, u, Texts)

(* the same step, the visible text being any of FilterTexts *)
fetch_parsed_text(j, u) == ParseResponse(j, u, FilterTexts)

(* lines 157-158 and 170-174: status 429, then the backoff sleep *)
fetch_rate_limited(j, u) ==
    /\ Running(j, u)
    /\ job[j].tasks[u].st = "requesting"
    /\ job' = [job EXCEPT ![j].tasks[u].retries = @ + 1,
                          ![j].tasks[u].st = "sleeping",
                          ![j].log[u] = Append(@, "429")]
    /\ query' = NoQuery
    /\ UNCHANGED <<fs, uuid>>

(* mutant: a task that used up its attempts does not leave the loop *)
fetch_wake_NoGiveUp(j, u) ==
    /\ Running(j, u)
    /\ job[j].tasks[u].st = "sleeping"
    /\ MayRetry(job[j].tasks[u].retries)
    /\ job' = [job EXCEPT ![j].tasks[u].st = "requesting", ![j].issued[u] = @ + 1]
    /\ query' = NoQuery
    /\ UNCHANGED <<fs, uuid>>

(* the sleep of line 174 ends: next turn of the loop, or lines 179-181 *)
fetch_wake(j, u) ==
    /\ Running(j, u)
    /\ job[j].tasks[u].st = "sleeping"
    /\ job' = [job EXCEPT ![j] =
                 IF MayRetry(job[j].tasks[u].retries)
                 THEN [job[j] EXCEPT !.tasks[u].st = "requesting", !.issued[u] = @ + 1]
                 ELSE GiveUp(job[j], u)]
    /\ query' = NoQuery
    /\ UNCHANGED <<fs, uuid>>

(* mutant: a client error is retried after a backoff sleep, like a 429 *)
fetch_client_error_Retried(j, u) ==
    /\ Running(j, u)
    /\ job[j].tasks[u].st = "requesting"
    /\ job' = [job EXCEPT ![j].tasks[u].retries = @ + 1,
                          ![j].tasks[u].st = "sleeping",
                          ![j].log[u] = Append(@, "ClientError")]
    /\ query' = NoQuery
    /\ UNCHANGED <<fs, uuid>>

(* mutant: a client error leaves the task and fails the job *)
fetch_client_error_Fatal(j, u) ==
    /\ Running(j, u)
    /\ job[j].tasks[u].st = "requesting"
    /\ Finalize(j, GiveUp([job[j] EXCEPT !.log[u] = Append(@, "ClientError")], u),
                fs, uuid, FAILED, job[j].failed_urls)

(* lines 175-177: aiohttp.ClientError, no further attempt *)
fetch_client_error(j, u) ==
    /\ Running(j, u)
    /\ job[j].tasks[u].st = "requesting"
    /\ job' = [job EXCEPT ![j] = GiveUp([job[j] EXCEPT !.log[u] = Append(@, "ClientError")], u)]
    /\ query' = NoQuery
    /\ UNCHANGED <<fs, uuid>>

(* mutant: the handler of line 68 empties the cache file *)
fetch_exception_RollsBack(j, u) ==
    /\ Running(j, u)
    /\ job[j].tasks[u].st = "requesting"
    /\ Finalize(j, [job[j] EXCEPT !.log[u] = Append(@, "Exception"), !.raised = TRUE],
                [file_path \in DOMAIN fs |->
                    IF file_path = PROCESSED_LINKS_JSON_FILE_PATH THEN <<>>
                    ELSE fs[file_path]],
                uuid, FAILED, job[j].failed_urls)

(* any other exception leaves the task, the gather of line 128 and the     *)
(* loop of execute; lines 68-86 run with failed_urls as the last finished  *)
(* batch left it.  The tasks still pending work on processed_urls of the   *)
(* abandoned batch only, which nobody reads.                               *)
fetch_exception(j, u) ==
    /\ Running(j, u)
    /\ job[j].tasks[u].st = "requesting"
    /\ Finalize(j, [job[j] EXCEPT !.log[u] = Append(@, "Exception"), !.raised = TRUE],
                fs, uuid, FAILED, job[j].failed_urls)

(* mutant: the tasks of the batch are not awaited *)
BatchFinished_NotAwaited(jr) == TRUE

(* the gather returns: lines 64-65, then the next batch or lines 67-86 *)
BatchFinished(jr) == \A u \in DOMAIN jr.tasks : jr.tasks[u].st = "done"

batch_done(j) ==
    /\ job[j].pc = "batch"
    /\ BatchFinished(job[j])
    /\ LET jr == job[j]
           files1 == write_to_json(fs, jr.processed_urls, PROCESSED_LINKS_JSON_FILE_PATH)
           next_start == jr.batch_start + DEFAULT_PROCESSING_BATCH_SIZE
           jr1 == [jr EXCEPT !.failed_urls = jr.batch_failed_urls,
                             !.committed = @ \cup Keys(jr.processed_urls),
                             !.committed_counts = Update(@, jr.processed_urls),
                             !.failed_ever = @ \cup Range(jr.batch_failed_urls)]
       IN  IF next_start < Len(jr.filtered_urls)
           THEN /\ fs' = files1
                /\ job' = [job EXCEPT ![j] = StartBatch(jr1, next_start)]
                /\ query' = NoQuery
                /\ UNCHANGED uuid
           ELSE Finalize(j, jr1, files1, uuid, PROCESSED, jr.batch_failed_urls)

(* routers/essays.py, get_max_occurrence_count_by_id *)
(* the ids a client can ask for: those returned to it, and one never issued *)
KnownIds ==
    {job[j].file_id : j \in {i \in BulkJobs : job[i].pc # "new"}}
        \cup {job[j].result.file_id : j \in {i \in Jobs : job[i].pc = "done"}}

QueryById(file_ids, top_words_set) ==
    /\ \E file_id \in file_ids, top_words \in top_words_set :
          query' = GetMaxCountsBasedOnID(fs, file_id, top_words)
    /\ UNCHANGED <<fs, uuid, job>>

get_max_occurrence_count_by_id == QueryById(KnownIds \cup {UnknownId}, QueryTopWords)

(* the same handler, asked for the records of the registry with any of    *)
(* the top_words values                                                    *)
get_max_occurrence_count_by_id_top_words == QueryById(Keys(registry), AggTopWords)

-----------------------------------------------------------------------------

Init ==
    /\ fs = <<>>
    /\ uuid = 0
    /\ job = [j \in Jobs |-> NewJob]
    /\ query = NoQuery

Next ==
    \/ \E j \in BulkJobs : upload_essays_file(j)
    \/ \E j \in BulkJobs : execute(j)
    \/ \E j \in SmallJobs : get_max_occurrence_count(j)
    \/ \E j \in Jobs, u \in URLS : fetch_acquire(j, u)
    \/ \E j \in Jobs, u \in URLS : fetch_parsed(j, u)
    \/ \E j \in Jobs, u \in URLS : fetch_rate_limited(j, u)
    \/ \E j \in Jobs, u \in URLS : fetch_wake(j, u)
    \/ \E j \in Jobs, u \in URLS : fetch_client_error(j, u)
    \/ \E j \in Jobs, u \in URLS : fetch_exception(j, u)
    \/ \E j \in Jobs : batch_done(j)
    \/ get_max_occurrence_count_by_id

Spec == Init /\ [][Next]_vars

(* One bulk job over a file of several batches, and the queries by id *)
NextBatches ==
    \/ \E j \in BulkJobs : upload_large_file(j)
    \/ \E j \in BulkJobs : execute(j)
    \/ \E j \in BulkJobs, u \in URLS : fetch_acquire(j, u)
    \/ \E j \in BulkJobs, u \in URLS : fetch_parsed(j, u)
    \/ \E j \in BulkJobs, u \in URLS : fetch_rate_limited(j, u)
    \/ \E j \in BulkJobs, u \in URLS : fetch_wake(j, u)
    \/ \E j \in BulkJobs, u \in URLS : fetch_client_error(j, u)
    \/ \E j \in BulkJobs, u \in URLS : fetch_exception(j, u)
    \/ \E j \in BulkJobs : batch_done(j)
    \/ get_max_occurrence_count_by_id

SpecBatches == Init /\ [][NextBatches]_vars

(* The query applied to bounded caches: the documents are as a process     *)
(* that ran jobs left them on disk, one job is on record as Processed, and *)
(* a fresh process (no job in memory) answers queries by id.               *)
Dicts(K, V, n) ==
    {d \in UNION {[1..m -> [k : K, v : V]] : m \in 0..n} :
        \A i, j \in DOMAIN d : i # j => d[i].k # d[j].k}

AggCounters == Dicts(AggWords, 1..MaxCount, 2)

AggCaches == Dicts(AggUrls, AggCounters, Cardinality(AggUrls))

InitAgg ==
    /\ \E data \in AggCaches, http_urls \in AggScopes :
          LET record == [file_name |-> "essays.txt", status |-> PROCESSED,
                         http_urls |-> http_urls, failed_urls |-> <<>>]
          IN  fs = [file_path \in {PROCESSED_LINKS_JSON_FILE_PATH,
                                   PROCESSED_FILES_JSON_FILE_PATH} |->
                       IF file_path = PROCESSED_LINKS_JSON_FILE_PATH THEN data
                       ELSE << [k |-> 1, v |-> record] >>]
    /\ uuid = 1
    /\ job = [j \in Jobs |-> NewJob]
    /\ query = NoQuery

NextAgg == get_max_occurrence_count_by_id_top_words

SpecAgg == InitAgg /\ [][NextAgg]_vars

(* The event loop does not idle while a task can run: a queued background *)
(* task starts, a free slot of the semaphore is taken, a request gets one  *)
(* of its outcomes, a sleep ends, a finished gather returns.               *)
Responds(j, u) ==
    \/ fetch_parsed(j, u)
    \/ fetch_rate_limited(j, u)
    \/ fetch_client_error(j, u)
    \/ fetch_exception(j, u)

JobStep(j) ==
    \/ execute(j)
    \/ batch_done(j)
    \/ \E u \in URLS : fetch_acquire(j, u) \/ Responds(j, u) \/ fetch_wake(j, u)

Fairness == WF_vars(\E j \in BulkJobs : JobStep(j))

(* one bulk job over a file of one batch, run to its end *)
upload_fair_file(j) == UploadFile(j, FairUploads)

NextFair ==
    \/ \E j \in BulkJobs : upload_fair_file(j)
    \/ \E j \in BulkJobs : execute(j)
    \/ \E j \in BulkJobs, u \in URLS : fetch_acquire(j, u)
    \/ \E j \in BulkJobs, u \in URLS : fetch_parsed(j, u)
    \/ \E j \in BulkJobs, u \in URLS : fetch_rate_limited(j, u)
    \/ \E j \in BulkJobs, u \in URLS : fetch_wake(j, u)
    \/ \E j \in BulkJobs, u \in URLS : fetch_client_error(j, u)
    \/ \E j \in BulkJobs, u \in URLS : fetch_exception(j, u)
    \/ \E j \in BulkJobs : batch_done(j)

SpecFair == Init /\ [][NextFair]_vars /\ Fairness

(* The filter applied to bounded texts and vocabularies: a job of one URL  *)
(* has loaded its vocabulary from one of FilterWordLists and sent the      *)
(* request for the URL; the response carries any of FilterTexts.           *)
InitFilter ==
    /\ \E word_list \in FilterWordLists :
          LET jr == [NewJob EXCEPT !.http_urls = {"a"}, !.file_id = 1, !.created_id = 1,
                                   !.word_banks = BankOf(word_list),
                                   !.filtered_urls = <<"a">>]
              started == [StartBatch(jr, 0) EXCEPT
                             !.semaphore = @ - 1, !.tasks["a"].st = "requesting",
                             !.issued["a"] = 1, !.requested = {"a"}]
          IN  /\ fs = [file_path \in {PROCESSED_FILES_JSON_FILE_PATH} |->
                          FileData(jr, 1, PROCESSING, <<>>)]
              /\ job = [j \in Jobs |-> IF j \in BulkJobs THEN started ELSE NewJob]
    /\ uuid = 1
    /\ query = NoQuery

NextFilter == \E j \in BulkJobs, u \in URLS : fetch_parsed_text(j, u)

SpecFilter == InitFilter /\ [][NextFilter]_vars

-----------------------------------------------------------------------------
(* Properties *)

Done(j) == job[j].pc = "done"

Terminal(status) == status \in {PROCESSED, FAILED}

Answered == query.response.kind # "none"

Occurrences(s, x) == Cardinality({i \in DOMAIN s : s[i] = x})

(* C1: for every finalized job the submitted URLs are exactly the union    *)
(* of the submitted URLs that are cache keys at finalization and the       *)
(* failed URLs of the job record, and these two sets are disjoint.         *)
C1_SubmittedPartition ==
    \A j \in Jobs :
        Done(j) =>
            LET success_urls == job[j].http_urls \cap job[j].final_cache_keys
                failed_urls == Range(Get(registry, job[j].result.file_id).failed_urls)
            IN  /\ job[j].http_urls = success_urls \cup failed_urls
                /\ success_urls \cap failed_urls = {}

(* C2: a URL whose every response was 429 has been requested exactly       *)
(* MAX_RETRY_FOR_BACKOFF times when its task ends, is then in the failed   *)
(* list of its batch exactly once, and the run holds no counts for it.     *)
Only429(j, u) ==
    /\ job[j].log[u] # <<>>
    /\ \A i \in DOMAIN job[j].log[u] : job[j].log[u][i] = "429"

C2_RateLimitedRetries ==
    \A j \in Jobs : \A u \in URLS :
        (Running(j, u) /\ Only429(j, u)) =>
            /\ job[j].issued[u] <= MAX_RETRY_FOR_BACKOFF
            /\ job[j].tasks[u].st = "done" =>
                  /\ job[j].issued[u] = MAX_RETRY_FOR_BACKOFF
                  /\ Len(job[j].log[u]) = MAX_RETRY_FOR_BACKOFF
                  /\ Occurrences(job[j].batch_failed_urls, u) = 1
                  /\ ~Has(job[j].processed_urls, u)
                  /\ u \notin job[j].committed

C2_Witness ==
    \E j \in Jobs : \E u \in URLS :
        /\ Running(j, u) /\ Only429(j, u)
        /\ job[j].tasks[u].st = "done"
        /\ u \in Range(job[j].batch_failed_urls)

(* C3: the failed list of a finalized job holds every URL that was         *)
(* recorded as failed in a batch of the job that completed.                *)
C3_AllFailedUrlsKept ==
    \A j \in Jobs :
        Done(j) =>
            /\ job[j].failed_ever \subseteq Range(job[j].result.failed_urls)
            /\ job[j].failed_ever
                  \subseteq Range(Get(registry, job[j].result.file_id).failed_urls)

(* C4: a job record is first written with status Processing, is rewritten  *)
(* once with a terminal status, and a terminal record never changes.       *)
C4_StatusStateMachine ==
    [][\A id \in Keys(registry') :
          /\ Terminal(Get(registry', id).status) =>
                \E j \in Jobs : job'[j].created_id = id
          /\ (Has(registry, id) /\ Terminal(Get(registry, id).status)) =>
                Get(registry', id) = Get(registry, id)]_vars

(* C5: a query for a finalized job, Processed or Failed, returns the       *)
(* result shape; the still-processing message is for Processing only.      *)
C5_FinalizedJobsAnswered ==
    Answered =>
        /\ Terminal(query.status) => query.response.kind = "result"
        /\ query.response.message = FILE_STILL_GETTING_PROCESSED
              => query.status = PROCESSING

(* C6: a query for an id that is not in the registry returns the           *)
(* does-not-exist message as a value, without reading the cache and        *)
(* without changing the registry or the cache.                             *)
C6_UnknownIdMessage ==
    [][(query'.response.kind # "none" /\ query'.status = "absent") =>
          /\ query'.response = [NoResponse EXCEPT !.kind = "message",
                                                  !.message = FILE_DOES_NOT_EXIST]
          /\ query'.error
          /\ ~query'.aggregated
          /\ fs' = fs]_vars

C6_Witness ==
    /\ Answered
    /\ query.file_id = UnknownId
    /\ query.status = "absent"
    /\ cache # <<>>

C8_ReturnedIdExists ==
    \A j \in BulkJobs :
        (Answered /\ job[j].pc # "new" /\ query.file_id = job[j].file_id) =>
            query.response.message # FILE_DOES_NOT_EXIST

(* C9: a job issues no request for a URL of its cache snapshot; such a URL *)
(* is in no batch and the job writes no cache entry for it.                *)
C9_SnapshotUrlsSkipped ==
    \A j \in Jobs :
        LET touched == job[j].requested \cup job[j].committed
                          \cup Range(job[j].filtered_urls) \cup DOMAIN job[j].tasks
                          \cup Keys(job[j].processed_urls)
        IN  touched \cap job[j].already_processed_urls = {}

C9_Witness ==
    \E j \in Jobs :
        /\ job[j].http_urls \cap job[j].already_processed_urls # {}
        /\ job[j].requested # {}
        /\ job[j].committed # {}

(* C10: when a request of a batch has been issued, every task of the       *)
(* earlier batches has finished and their counts are in the cache.         *)
EarlierUrls(jr) == {jr.filtered_urls[i] : i \in 1..jr.batch_start}

C10_BatchesSequential ==
    \A j \in Jobs : \A u \in URLS :
        (Running(j, u) /\ job[j].issued[u] > 0) =>
            \A v \in EarlierUrls(job[j]) :
                /\ v \in job[j].fetched \cup job[j].gave_up
                /\ v \in job[j].fetched => v \in job[j].committed /\ Has(cache, v)

C10_Witness ==
    \E j \in Jobs : \E u \in URLS :
        /\ Running(j, u) /\ job[j].issued[u] > 0
        /\ EarlierUrls(job[j]) \cap job[j].fetched # {}

(* C11: in a running batch the tasks inside the semaphore block (sending   *)
(* a request or sleeping before the next one) are never more than          *)
(* DEFAULT_MAX_CONCURRENT_REQUESTS, the semaphore counts exactly the free  *)
(* slots, and a task that has sent its first request stays inside the      *)
(* block until it has succeeded or been recorded as failed.                *)
InGate(jr) ==
    {u \in DOMAIN jr.tasks : jr.tasks[u].st \in {"requesting", "sleeping"}}

C11_GateBound ==
    \A j \in Jobs :
        job[j].pc = "batch" =>
            /\ Cardinality(InGate(job[j])) <= DEFAULT_MAX_CONCURRENT_REQUESTS
            /\ job[j].semaphore + Cardinality(InGate(job[j]))
                   = DEFAULT_MAX_CONCURRENT_REQUESTS
            /\ \A u \in DOMAIN job[j].tasks :
                   (job[j].issued[u] > 0 /\ job[j].tasks[u].st # "done")
                       => u \in InGate(job[j])

(* a task sleeps in its backoff with every slot taken, another one waits *)
C11_Witness ==
    \E j \in Jobs : \E u, v \in URLS :
        /\ Running(j, u) /\ Running(j, v)
        /\ job[j].tasks[u].st = "sleeping"
        /\ job[j].tasks[v].st = "waiting"
        /\ job[j].semaphore = 0

(* C12: once an unhandled exception has left a task of batch N, the job is *)
(* finalized Failed, no URL beyond batch N has been requested, and every   *)
(* entry the earlier batches committed is still in the cache file with     *)
(* the counts they wrote.                                                  *)
C12_AbortKeepsCommitted ==
    \A j \in Jobs :
        job[j].raised =>
            /\ Done(j)
            /\ job[j].file_status = FAILED
            /\ Get(registry, job[j].result.file_id).status = FAILED
            /\ job[j].requested \subseteq
                   Range(Slice(job[j].filtered_urls, 0,
                               job[j].batch_start + DEFAULT_PROCESSING_BATCH_SIZE))
            /\ \A url \in Keys(job[j].committed_counts) :
                   /\ Has(cache, url)
                   /\ Get(cache, url) = Get(job[j].committed_counts, url)

(* the exception came in the second batch, after the first one committed  *)
(* counts of words, and a URL was left unrequested                         *)
C12_Witness ==
    \E j \in Jobs :
        /\ job[j].raised
        /\ job[j].batch_start > 0
        /\ \E url \in Keys(job[j].committed_counts) :
               Get(job[j].committed_counts, url) # <<>>

(* C13: once a request for a URL has ended in a client error other than a  *)
(* 429, the task of the URL is over: that request was its last one, the    *)
(* task does not sleep, the URL is in the failed list of the batch exactly *)
(* once and the batch holds no counts for it.                              *)
LastOutcome(j, u) == job[j].log[u][Len(job[j].log[u])]

C13_ClientErrorNoRetry ==
    \A j \in Jobs : \A u \in URLS :
        (Running(j, u) /\ job[j].log[u] # <<>> /\ LastOutcome(j, u) = "ClientError") =>
            /\ job[j].tasks[u].st = "done"
            /\ job[j].issued[u] = Len(job[j].log[u])
            /\ Occurrences(job[j].log[u], "ClientError") = 1
            /\ Occurrences(job[j].batch_failed_urls, u) = 1
            /\ ~Has(job[j].processed_urls, u)
            /\ u \notin job[j].fetched

(* the client error came on the request that followed a 429 *)
C13_Witness ==
    \E j \in Jobs : \E u \in URLS :
        /\ Running(j, u)
        /\ job[j].log[u] = <<"429", "ClientError">>
        /\ job[j].tasks[u].st = "done"

(* C14: a URL whose response had a status other than 2xx and 429 is in the *)
(* failed list of its batch, and the batch holds no counts for it.         *)
C14_OnlySuccessIsParsed ==
    \A j \in Jobs : \A u \in URLS :
        (Running(j, u) /\ job[j].log[u] # <<>> /\ LastOutcome(j, u) = "404") =>
            /\ u \in Range(job[j].batch_failed_urls)
            /\ ~Has(job[j].processed_urls, u)

(* C15: a job whose vocabulary could not be loaded, because requests.get   *)
(* raised or because the status was not 200, works with the empty          *)
(* vocabulary and is not failed by it: it is Failed only if an exception   *)
(* left one of its fetch tasks.                                            *)
VocabularyFailed(j) ==
    \/ job[j].bank_error
    \/ job[j].pc = "batch" /\ job[j].word_banks = {}

C15_VocabularyFailureTolerated ==
    \A j \in Jobs :
        VocabularyFailed(j) =>
            /\ job[j].word_banks = {}
            /\ job[j].file_status = FAILED => job[j].raised

(* C16: a job in which a URL failed and no exception left a task is        *)
(* finalized Processed after all its batches ran, and every URL it fetched *)
(* successfully has its counts committed to the cache file.                *)
C16_UrlFailureNotFatal ==
    \A j \in Jobs :
        (Done(j) /\ job[j].gave_up # {} /\ ~job[j].raised) =>
            /\ job[j].file_status = PROCESSED
            /\ Get(registry, job[j].result.file_id).status = PROCESSED
            /\ job[j].requested = Range(job[j].filtered_urls)
            /\ job[j].fetched \subseteq job[j].committed
            /\ job[j].fetched \subseteq job[j].final_cache_keys

(* a URL of the first batch failed, the other URL of that batch and the    *)
(* URL of the second batch were fetched                                    *)
C16_Witness ==
    \E j \in Jobs :
        /\ Done(j) /\ job[j].file_status = PROCESSED
        /\ Cardinality(job[j].gave_up) = 1
        /\ Cardinality(job[j].fetched) = 2
        /\ job[j].batch_start > 0
        /\ job[j].gave_up \subseteq
               Range(Slice(job[j].filtered_urls, 0, DEFAULT_PROCESSING_BATCH_SIZE))

-----------------------------------------------------------------------------
(* Properties of the answers of GetMaxCountsBasedOnID *)

(* the count of word in the item at position i of data, 0 outside scope *)
CountIn(data, scope, word, i) ==
    IF data[i].k \in scope /\ Has(data[i].v, word) THEN Get(data[i].v, word) ELSE 0

RECURSIVE TotalUpTo(_, _, _, _)
TotalUpTo(data, scope, word, n) ==
    IF n = 0 THEN 0
    ELSE TotalUpTo(data, scope, word, n - 1) + CountIn(data, scope, word, n)

TotalCount(data, scope, word) == TotalUpTo(data, scope, word, Len(data))

CountedWords(data, scope) ==
    {word \in UNION {Keys(data[i].v) : i \in DOMAIN data} :
        TotalCount(data, scope, word) > 0}

Min(x, y) == IF x < y THEN x ELSE y

(* the query answered with a result, and the scope and the answer of it *)
Resulted == query.response.kind = "result"

Scope == Get(registry, query.file_id).http_urls

TopWords == query.response.top_words

(* C17: the answer to a query with top_words = k > 0 has min(k, number of  *)
(* distinct words of a positive total count over the cache entries in      *)
(* scope) items.                                                           *)
C17_ResultLength ==
    (Resulted /\ query.top_words > 0) =>
        Len(TopWords) = Min(query.top_words, Cardinality(CountedWords(cache, Scope)))

(* three words are counted and two are asked for *)
C17_Witness ==
    /\ Resulted /\ query.top_words = 2
    /\ Cardinality(CountedWords(cache, Scope)) = 3
    /\ Len(TopWords) = 2

(* C18: the answer to a query with top_words zero or negative is the       *)
(* answer for top_words = DEFAULT_TOP_WORDS_COUNT: the first min(10,       *)
(* distinct words) items of the descending order.                          *)
C18_NonPositiveIsDefault ==
    (Resulted /\ query.top_words <= 0) =>
        /\ TopWords = get_top_words(cache, Scope, DEFAULT_TOP_WORDS_COUNT)
        /\ Len(TopWords) = Min(DEFAULT_TOP_WORDS_COUNT,
                               Cardinality(CountedWords(cache, Scope)))

(* C19: the count the answer gives for a word is the sum of the counts of  *)
(* the word in the cache entries of the URLs in scope, and only words      *)
(* counted there are in the answer.                                        *)
C19_CountsAreScopedSums ==
    Resulted =>
        \A i \in DOMAIN TopWords :
            /\ TopWords[i].v = TotalCount(cache, Scope, TopWords[i].k)
            /\ TopWords[i].k \in CountedWords(cache, Scope)

(* the scenario of the specification: {cat: 2, dog: 1} and                 *)
(* {cat: 1, emu: 2}, both in scope, and the two top words asked for        *)
C19_Witness ==
    /\ Resulted /\ query.top_words = 2
    /\ Scope = {"a", "b"}
    /\ Has(cache, "a") /\ Has(cache, "b")
    /\ Get(cache, "a") = << [k |-> "cat", v |-> 2], [k |-> "dog", v |-> 1] >>
    /\ Get(cache, "b") = << [k |-> "cat", v |-> 1], [k |-> "emu", v |-> 2] >>
    /\ TopWords = << [k |-> "cat", v |-> 3], [k |-> "emu", v |-> 2] >>

(* C20: the counts of the answer do not increase from one item to the      *)
(* next, and no counted word left out has a greater count than a word of   *)
(* the answer.                                                             *)
C20_DescendingAndTop ==
    Resulted =>
        /\ \A i \in 1..(Len(TopWords) - 1) : TopWords[i].v >= TopWords[i + 1].v
        /\ \A word \in CountedWords(cache, Scope) \ Keys(TopWords) :
               \A i \in DOMAIN TopWords :
                   TotalCount(cache, Scope, word) <= TopWords[i].v

(* the word aggregated first has the smallest of three different counts   *)
(* and is left out of the two top words                                    *)
C20_Witness ==
    /\ Resulted /\ query.top_words = 2
    /\ Len(TopWords) = 2
    /\ TopWords[1].v > TopWords[2].v
    /\ LET total_counts == aggregate_word_counts(cache, Scope)
       IN  /\ Len(total_counts) = 3
           /\ total_counts[1].k \notin Keys(TopWords)
           /\ total_counts[1].v < TopWords[2].v

(* C21: the answer does not depend on the order in which the entries were  *)
(* committed to the cache: every cache holding the same entries in another *)
(* order gives the same words in the same order for the same scope and     *)
(* top_words.                                                              *)
Reorderings(d) ==
    {[i \in DOMAIN d |-> d[p[i]]] : p \in Orderings(DOMAIN d)}

EffectiveTopWords ==
    IF query.top_words = 0 THEN DEFAULT_TOP_WORDS_COUNT ELSE query.top_words

C21_TiesDeterministic ==
    Resulted =>
        \A data \in Reorderings(cache) :
            get_top_words(data, Scope, EffectiveTopWords) = TopWords

(* C22: the count stored for a word of the vocabulary is the number of     *)
(* tokens of the text that lower-casing, the case policy applied to the    *)
(* vocabulary and to the retained tokens, maps to the word (no entry when  *)
(* there is none), and no other word is stored.                            *)
PolicyCount(text, word) ==
    Cardinality({i \in DOMAIN text : Lower(text[i]) = word})

StoredCount(counts, word) == IF Has(counts, word) THEN Get(counts, word) ELSE 0

C22_ExactMembership ==
    \A j \in Jobs : \A u \in URLS :
        (Running(j, u) /\ Has(job[j].processed_urls, u)) =>
            LET counts == Get(job[j].processed_urls, u)
            IN  /\ Keys(counts) \subseteq job[j].word_banks
                /\ \A word \in job[j].word_banks :
                      StoredCount(counts, word) = PolicyCount(job[j].text[u], word)

(* C23: a finished execution created and finalized one record: the id      *)
(* written with status Processing is the id written at the end and         *)
(* returned, and the record it created is no longer Processing.            *)
C23_OneRecordPerExecution ==
    \A j \in Jobs :
        (Done(j) /\ job[j].created_id # None) =>
            /\ job[j].created_id = job[j].result.file_id
            /\ Get(registry, job[j].created_id).status # PROCESSING

(* C24: the cache file holds the counts of exactly those URLs the job      *)
(* fetched in batches that have completed: all fetched URLs of every       *)
(* completed batch, and no URL of the batch that is running or was         *)
(* aborted by an exception.  (One job, so every entry is written by it.)   *)
CompletedUrls(jr) ==
    IF jr.pc = "done" /\ ~jr.raised THEN Range(jr.filtered_urls)
    ELSE Range(Slice(jr.filtered_urls, 0, jr.batch_start))

C24_CommitsBatchAtomic ==
    \A j \in BulkJobs :
        job[j].pc \in {"batch", "done"} =>
            /\ Keys(cache) = job[j].fetched \cap CompletedUrls(job[j])
            /\ \A url \in Keys(cache) :
                   Get(cache, url) = Get(job[j].committed_counts, url)

(* the first batch is committed, the URL of the second batch is fetched    *)
(* and not yet in the cache file                                           *)
C24_Witness ==
    \E j \in BulkJobs :
        /\ job[j].pc = "batch" /\ job[j].batch_start > 0
        /\ Cardinality(Keys(cache)) = DEFAULT_PROCESSING_BATCH_SIZE
        /\ job[j].fetched \ Keys(cache) # {}

(* C25: the step that commits a batch sets the cache entries of the URLs   *)
(* of processed_urls to the new counts and leaves every other entry as it  *)
(* was; no other step changes the cache, and no step removes a key.        *)
Commits(j) ==
    /\ job[j].pc = "batch"
    /\ BatchFinished(job[j])
    /\ job'[j] # job[j]

C25_MergeUpdate ==
    [][/\ Keys(cache) \subseteq Keys(cache')
       /\ (\A j \in Jobs : ~Commits(j)) => cache' = cache
       /\ \A j \in Jobs :
             Commits(j) =>
                 /\ Keys(cache') = Keys(cache) \cup Keys(job[j].processed_urls)
                 /\ \A url \in Keys(cache') :
                       Get(cache', url) =
                           IF Has(job[j].processed_urls, url)
                           THEN Get(job[j].processed_urls, url)
                           ELSE Get(cache, url)]_vars

(* two jobs committed different counts for one URL, the cache holds those  *)
(* of the second commit and still the entry of another URL                 *)
C25_Witness ==
    \E j1, j2 \in Jobs : \E url, other \in URLS :
        /\ j1 # j2 /\ url # other
        /\ Has(job[j1].committed_counts, url) /\ Has(job[j2].committed_counts, url)
        /\ Get(job[j1].committed_counts, url) # Get(job[j2].committed_counts, url)
        /\ Has(cache, url) /\ Get(cache, url) = Get(job[j2].committed_counts, url)
        /\ Has(job[j1].committed_counts, other)
        /\ Has(cache, other) /\ Get(cache, other) = Get(job[j1].committed_counts, other)

(* C26: no task sends more than MAX_RETRY_FOR_BACKOFF requests, a task     *)
(* that is over has its URL in the counts or in the failed list of the     *)
(* batch, and a job that was submitted is eventually finalized with a      *)
(* terminal status in the registry.                                        *)
TasksBounded ==
    \A j \in Jobs : \A u \in URLS :
        Running(j, u) =>
            /\ job[j].issued[u] <= MAX_RETRY_FOR_BACKOFF
            /\ job[j].tasks[u].st = "done" =>
                  \/ Has(job[j].processed_urls, u)
                  \/ u \in Range(job[j].batch_failed_urls)

Finalized(j) ==
    /\ Done(j)
    /\ Has(registry, job[j].result.file_id)
    /\ Terminal(Get(registry, job[j].result.file_id).status)

C26_JobsTerminate ==
    /\ []TasksBounded
    /\ \A j \in BulkJobs : (job[j].pc = "queued") ~> Finalized(j)

(* the job ended Processed after one of its tasks used every attempt and   *)
(* another was answered on its last one                                    *)
C26_Witness ==
    \E j \in BulkJobs : \E u, v \in URLS :
        /\ Finalized(j) /\ job[j].file_status = PROCESSED
        /\ u \in job[j].gave_up
        /\ v \in job[j].fetched

(* C27: when the processing of a job starts, none of the URLs it is going  *)
(* to fetch is a key of the cache file as it stands at that moment.        *)
C27_SnapshotAtStart ==
    [][\A j \in Jobs :
          (job[j].pc \in {"new", "queued"} /\ job'[j].pc = "batch") =>
              Range(job'[j].filtered_urls) \cap Keys(cache) = {}]_vars

(* C28, as stated: after both jobs finished, every URL either of them      *)
(* fetched successfully is a cache key, and both have a terminal record.   *)
BothDone == \A j \in Jobs : Done(j)

C28_AllFetchedCached ==
    BothDone =>
        \A j \in Jobs :
            /\ job[j].fetched \subseteq Keys(cache)
            /\ Finalized(j)

(* C28, amended: after both jobs finished, every URL either of them        *)
(* fetched in a batch that completed is a cache key (every fetched URL if  *)
(* no exception aborted the job), and the registry holds a terminal record *)
(* of its own for each job.                                                *)
C28_NoLostUpdate ==
    BothDone =>
        /\ \A j \in Jobs :
              /\ job[j].committed \subseteq Keys(cache)
              /\ ~job[j].raised => job[j].fetched \subseteq Keys(cache)
              /\ Finalized(j)
              /\ Get(registry, job[j].result.file_id).http_urls = job[j].http_urls
        /\ \A j1, j2 \in Jobs :
              j1 # j2 => job[j1].result.file_id # job[j2].result.file_id

(* both jobs were constructed before anything was in the cache, and both   *)
(* committed counts                                                        *)
C28_Witness ==
    /\ BothDone
    /\ \A j \in Jobs :
          /\ job[j].file_status = PROCESSED
          /\ job[j].already_processed_urls = {}
          /\ job[j].committed # {}

(* C29: in a result, the counts of the top words are the totals over the   *)
(* cache entries of the URLs in scope that are not in the failed_urls of   *)
(* the same result: a URL reported as failed adds nothing.                 *)
C29_FailedUrlsNotCounted ==
    Resulted =>
        LET succeeded == Scope \ Range(query.response.failed_urls)
        IN  \A i \in DOMAIN TopWords :
                TopWords[i].v = TotalCount(cache, succeeded, TopWords[i].k)

=============================================================================
